---- MODULE Spec2Model ----
(***************************************************************************)
(* The frame batch pipeline of src/waifu2x.ts: upscaleImages (plain image  *)
(* batch), upscaleGIFs / upscaleGIF and upscaleVideos / upscaleVideo.      *)
(*                                                                         *)
(* A frame is identified by its ordinal (the i of frame${i}.jpg, the d of  *)
(* frame%d.png, the index of a file in fileMap); the path strings built    *)
(* from it are not modelled.  JavaScript runs every callback to            *)
(* completion, so one action is one synchronous stretch of the code: from  *)
(* one await to the next.                                                  *)
(***************************************************************************)
EXTENDS Integers, Sequences, FiniteSets, TLC

\* Bounds of the model
MaxFrames == 3
MaxP      == 2
MaxLimit  == 1
MaxFiles  == 2
\* the decode of one GIF, followed without the scheduler (DecodeSpec)
MaxGifFrames == 20
MaxSpeed     == 7
\* the argument of removeDirectory and the directory tree it meets (RemoveSpec)
MaxPathLen == 3
MaxDepth   == 2
\* the calls of the cancellation callback of one upscaleImage (PollSpec)
MaxPolls == 10

\* ------------------------------------------------------------------ values

Apis == {"upscaleImages", "upscaleGIFs", "upscaleVideos"}

\* options.speed as a fraction <<numerator, denominator>>; <<0, 0>> is "unset"
\* (undefined > 1 and undefined < 1 are both false).
NoSpeed == <<0, 0>>
Speeds  == {NoSpeed, <<2, 1>>, <<1, 2>>}
\* the speeds of DecodeSpec: unset, 1, 1/2, 1/4 and the integers 2..MaxSpeed
GifSpeeds == {NoSpeed, <<1, 1>>, <<1, 2>>, <<1, 4>>} \cup {<<k, 1>> : k \in 2..MaxSpeed}

\* exit code of waifu2x-converter-cpp: 0 success, 1 failure or killed
ExitCodes == {0, 1}

Min(a, b) == IF a < b THEN a ELSE b

\* frames[i].frameInfo.delay: the raw delay of the decomposed frame i, in
\* hundredths of a second; distinct per frame so that a delay names its frame.
FrameDelay(f) == 2 * (f + 2)

\* ------------------------------------------------------------------ pure helpers

\* options.speed > 1 and options.speed < 1
SpeedAbove1(s) == s # NoSpeed /\ s[1] > s[2]
SpeedBelow1(s) == s # NoSpeed /\ s[1] < s[2]

\* ---- the number type of JavaScript: IEEE 754 binary64, positive finite values.
\* A double is [m, e] with value m * 2^e and 2^52 <= m < 2^53; m is held as four
\* limbs of LimbBits bits, most significant first.
MantissaBits == 53
LimbBits == 14
Base == 2 ^ LimbBits

Big(f(_)) == <<f(1), f(2), f(3), f(4)>>
BigZero == <<0, 0, 0, 0>>
BigOfInt(v) == <<0, 0, 0, v>>
Limbs == Len(BigZero)
BigLimb(x, k) == IF k \in 1..Limbs THEN x[k] ELSE 0

\* x * 2^c and x \div 2^c
BigShl(x, c) ==
    LET a == c \div LimbBits
        b == c % LimbBits
        limb(k) == ((BigLimb(x, k + a) * 2 ^ b) % Base)
                   + (BigLimb(x, k + a + 1) \div 2 ^ (LimbBits - b))
    IN  Big(limb)
BigShr(x, c) ==
    LET a == c \div LimbBits
        b == c % LimbBits
        limb(k) == (BigLimb(x, k - a) \div 2 ^ b)
                   + ((BigLimb(x, k - a - 1) % 2 ^ b) * 2 ^ (LimbBits - b))
    IN  Big(limb)
BigOdd(x) == x[Limbs] % 2 = 1

RECURSIVE BigGeqFrom(_, _, _)
BigGeqFrom(x, y, k) ==
    IF k > Limbs THEN TRUE
    ELSE IF x[k] # y[k] THEN x[k] > y[k]
    ELSE BigGeqFrom(x, y, k + 1)
BigGeq(x, y) == BigGeqFrom(x, y, 1)

\* x - y for x >= y; the borrow out of the limbs from k on is x[k..] < y[k..]
BigSub(x, y) ==
    LET borrow(k) == IF k <= Limbs /\ ~BigGeqFrom(x, y, k) THEN 1 ELSE 0
        limb(k) == (x[k] - y[k] - borrow(k + 1) + Base) % Base
    IN  Big(limb)
\* x + 1
BigInc(x) ==
    LET limb(k) == IF \A j \in (k + 1)..Limbs : x[j] = Base - 1
                   THEN (x[k] + 1) % Base ELSE x[k]
    IN  Big(limb)

RECURSIVE BitLen(_)
BitLen(v) == IF v = 0 THEN 0 ELSE 1 + BitLen(v \div 2)

\* the double of a positive integer (exact below 2^53)
ToDouble(v) ==
    [m |-> BigShl(BigOfInt(v), MantissaBits - BitLen(v)),
     e |-> BitLen(v) - MantissaBits]

\* one step of binary long division: the next quotient bit and the remainder
DivStep(st, b) ==
    IF BigGeq(st.r, b)
    THEN [r |-> BigShl(BigSub(st.r, b), 1), q |-> BigInc(BigShl(st.q, 1))]
    ELSE [r |-> BigShl(st.r, 1), q |-> BigShl(st.q, 1)]
\* c steps; once the remainder is 0 the division is exact and the bits left are 0
RECURSIVE DivSteps(_, _, _)
DivSteps(st, b, c) ==
    IF c = 0 THEN st
    ELSE IF c = 1 THEN DivStep(st, b)
    ELSE LET half == DivSteps(st, b, c \div 2)
         IN  IF half.r = BigZero
             THEN [r |-> BigZero, q |-> BigShl(half.q, c - c \div 2)]
             ELSE DivSteps(half, b, c - c \div 2)

\* round to nearest, ties to even: st.q holds 53 quotient bits and the guard bit,
\* st.r the remainder
Round(st, e) ==
    LET m == BigShr(st.q, 1)
        up == BigOdd(st.q) /\ (st.r # BigZero \/ BigOdd(m))
    IN  IF ~up THEN [m |-> m, e |-> e]
        ELSE IF BigInc(m) = BigShl(BigOfInt(1), MantissaBits)
             THEN [m |-> BigShl(BigOfInt(1), MantissaBits - 1), e |-> e + 1]
             ELSE [m |-> BigInc(m), e |-> e]

\* a / b on doubles
FDiv(a, b) ==
    IF BigGeq(a.m, b.m)
    THEN Round(DivSteps([r |-> a.m, q |-> BigZero], b.m, MantissaBits + 1),
               a.e - b.e - (MantissaBits - 1))
    ELSE Round(DivSteps([r |-> BigShl(a.m, 1), q |-> BigZero], b.m, MantissaBits + 1),
               a.e - b.e - MantissaBits)

\* Math.ceil of a positive double below Base
Ceil(x) ==
    IF x.e <= 0 - MantissaBits THEN 1
    ELSE LET int == BigShr(x.m, 0 - x.e)
         IN  int[Limbs] + (IF BigShl(int, 0 - x.e) # x.m THEN 1 ELSE 0)

\* options.speed, the double nearest to the fraction
SpeedDouble(s) == FDiv(ToDouble(s[1]), ToDouble(s[2]))

\* const constraint = options.speed > 1 ? frames.length / options.speed : frames.length
\* let step = Math.ceil(frames.length / constraint)                 (frames.length >= 1)
StepOf(n, s) ==
    LET constraint == IF SpeedAbove1(s) THEN FDiv(ToDouble(n), SpeedDouble(s))
                      ELSE ToDouble(n)
    IN  Ceil(FDiv(ToDouble(n), constraint))

\* StepOf, computed once for the frame counts and speeds of the model
StepTable ==
    {<<n, s, StepOf(n, s)>> :
        n \in 1..(MaxFrames + MaxGifFrames), s \in Speeds \cup GifSpeeds}

\* the step of downloadFrames.  For frames.length = 0 the quotient is NaN and the
\* loop body never runs; 1 stands for it.
Step(n, s) ==
    IF n = 0 THEN 1
    ELSE (CHOOSE t \in StepTable : t[1] = n /\ t[2] = s)[3]

\* the loop of downloadFrames: i = 0, step, 2*step, ... while i < n
DownloadIndices(n, step) ==
    [k \in 1..((n + step - 1) \div step) |-> (k - 1) * step]

\* delayArray.map((n) => n / options.speed); the speeds below 1 of the model are
\* 1/2 and 1/4, for which the quotient is the integer d * 2 or d * 4
\* (SlowDelayWrong: the delays left as they are)
SlowDelayWrong(d, s) == d
SlowDelay(d, s) == (d * s[2]) \div s[1]

\* Array.prototype.reverse
Reverse(s) == [k \in 1..Len(s) |-> s[Len(s) + 1 - k]]

\* while (arr.length) queue.push(arr.splice(0, P)): contiguous slices of size P
\* (SpliceAllWrong: one group holding the whole array, also when it is empty)
SpliceAllWrong(arr, p) == <<arr>>
RECURSIVE SpliceAll(_, _)
SpliceAll(arr, p) ==
    IF arr = <<>> THEN <<>>
    ELSE <<SubSeq(arr, 1, Min(p, Len(arr)))>>
         \o SpliceAll(SubSeq(arr, Min(p, Len(arr)) + 1, Len(arr)), p)

\* if (!options.parallelFrames) options.parallelFrames = 1
DefaultParallel(p) == IF p = 0 THEN 1 ELSE p

\* if (!options.limit) options.limit = fileMap.length
DefaultLimit(l, n) == IF l = 0 THEN n ELSE l

\* upscaleImage: the promise it awaits resolves on the child's "exit" event,
\* whatever the exit code, and the function then returns destPath.
upscaleImage(f, code) == [rejected |-> FALSE, value |-> f]

\* let counter = 1 (upscaleImages) / let counter = 0 (upscaleGIF, upscaleVideo)
\* (CounterStartWrong: every scheduler counting from 0)
CounterStartWrong(api) == 0
CounterStart(api) == IF api = "upscaleImages" THEN 1 ELSE 0

\* the first call  progress(0, total) / progress(counter++, total)
FirstCounter(api, c) == IF api = "upscaleImages" THEN c ELSE c + 1

\* if (counter >= options.limit) cancel = true   (upscaleImages only)
LimitReached(api, c, l) == api = "upscaleImages" /\ c >= l

\* if (options.scale !== 1) { the scheduler } else { scaledFrames = frameArray }
\* (ScheduledWrong: the scheduler run whatever the scale)
ScheduledWrong(scale1) == TRUE
Scheduled(scale1) == ~scale1

\* if (stop) cancel = true
CancelAfter(cancel, stop) == cancel \/ stop

\* if (cancel) break, else i++ and test i < queue.length
\* (BreakLoopWrong: the loop without its break)
BreakLoopWrong(cancel) == FALSE
BreakLoop(cancel) == cancel

\* await Promise.all(...): resolves when every promise of the group has
\* (GroupSettledWrong: a race instead of a join)
GroupSettledWrong(group, st) == \E k \in 1..Len(group) : st[group[k]] = "settled"
GroupSettled(group, st) == \A k \in 1..Len(group) : st[group[k]] = "settled"

\* for (let i = 0; i < options.limit; i++) { if (!fileMap[i]) break
\* (BatchGoesOnWrong: the loop without the test of fileMap[i])
BatchGoesOnWrong(b, limit, m) == b < limit
BatchGoesOn(b, limit, m) == b < limit /\ b < m

\* catch (err) { continue }: the loop goes on with the next index
\* (CatchContinueWrong: the failure ends the batch)
CatchContinueWrong(b) == [bpc |-> "returned", bi |-> b]
CatchContinue(b) == [bpc |-> "for", bi |-> b + 1]

\* parseFramerate(source): the framerate of the video at index b of the batch,
\* distinct per video so that a framerate names its video
SourceFramerate(b) == 24 + b

\* if (!options.framerate) options.framerate = await Waifu2x.parseFramerate(...)
DefaultFramerate(r, b) == IF r = 0 THEN SourceFramerate(b) ELSE r

\* if (!stopped) poll()
\* (PollAgainWrong: the poll rescheduled whatever stopped is)
PollAgainWrong(stopped) == TRUE
PollAgain(stopped) == ~stopped

\* ---- file names.  A name is its stem and its extension ("" for a name without
\* a dot); the files of a source folder are numbered 1.png, 2.png, ...; a path
\* is the sequence of its names.
Rename == "2x"
Exts == {".png"}
Names == {[stem |-> <<k>>, ext |-> e] : k \in 1..MaxFrames, e \in Exts}
NameOrder == [k \in 1..MaxFrames |-> [stem |-> <<k>>, ext |-> ".png"]]
\* the subdirectories of the source folder, in the order readdirSync lists them
SubDirOrder == <<"a">>
Here == ""
Dirs == {Here} \cup {SubDirOrder[k] : k \in 1..Len(SubDirOrder)}
\* a source file `${dir}/${file}`
SourceFiles == [dir : Dirs, name : Names]
\* what a source folder can hold, up to MaxFrames files
SourceFolders == {F \in SUBSET SourceFiles : Cardinality(F) <= MaxFrames}
\* the folders without subdirectories, their files numbered from 1
FlatFolders ==
    {{[dir |-> Here, name |-> NameOrder[k]] : k \in 1..n} : n \in 0..MaxFrames}

\* files.map((file) => `${dir}/${file}`).filter(isFile): the files of one directory
FilesIn(F, d) ==
    LET sel == SelectSeq(NameOrder, LAMBDA nm : [dir |-> d, name |-> nm] \in F)
    IN  [k \in 1..Len(sel) |-> [dir |-> d, name |-> sel[k]]]

\* for (i < dirMap.length) fileMap = [...fileMap, ...recursiveSearch(dirMap[i])]
RECURSIVE SearchAll(_, _)
SearchAll(F, dirs) ==
    IF dirs = <<>> THEN <<>>
    ELSE FilesIn(F, Head(dirs)) \o SearchAll(F, Tail(dirs))

\* the fileMap of upscaleImages
FileMapOf(F, recursive) ==
    FilesIn(F, Here) \o (IF recursive THEN SearchAll(F, SubDirOrder) ELSE <<>>)

\* path.basename(dest).includes(".")
Dotted(name) == name.ext # ""

\* parseFilename for a dest that is given: a dest whose last name has a dot is
\* the image itself, otherwise it is the folder and the image is
\* basename(source) without its extension + rename + the extension
parseFilename(source, dest, rename) ==
    LET base == dest[Len(dest)] IN
    IF Dotted(base)
    THEN [folder |-> SubSeq(dest, 1, Len(dest) - 1), image |-> base]
    ELSE [folder |-> dest,
          image |-> [stem |-> Append(source.name.stem, rename),
                     ext |-> source.name.ext]]

\* the dest arguments of upscaleImages: a folder out, an image path out/0.png
OutName == [stem |-> <<"out">>, ext |-> ""]
PicName == [stem |-> <<0>>, ext |-> ".png"]
DestFolders == {<<OutName>>, <<OutName, PicName>>}

\* ---- paths.  A path string is a sequence of characters; a directory is named
\* by the sequence of the names from the root down to it (the root is <<>>).
Chars == {"/", ".", "a"}
PathStrings == UNION {[1..k -> Chars] : k \in 0..MaxPathLen}

\* the directory trees of the model: a chain a, a/a, ... below the root
RECURSIVE Chain(_)
Chain(d) == IF d = 0 THEN <<>> ELSE Append(Chain(d - 1), <<"a">>)
Trees == {{Chain(d) : d \in 0..depth} : depth \in 0..MaxDepth}

\* what a path that names no existing directory resolves to
Missing == << <<"/">> >>

\* the parts of a path string between its slashes
RECURSIVE Components(_)
Components(p) ==
    IF p = <<>> THEN << <<>> >>
    ELSE LET rest == Components(Tail(p))
         IN  IF Head(p) = "/" THEN << <<>> >> \o rest
             ELSE << <<Head(p)>> \o rest[1] >> \o Tail(rest)

IsPrefix(a, b) == Len(a) <= Len(b) /\ SubSeq(b, 1, Len(a)) = a

\* path resolution as the file system does it: from the root for an absolute
\* path and from the current directory otherwise; an empty part or "." stays,
\* ".." goes up (the root is its own parent), a name goes down if it exists
RECURSIVE Walk(_, _, _)
Walk(at, parts, tree) ==
    IF parts = <<>> \/ at = Missing THEN at
    ELSE LET c == Head(parts)
             to == IF c = <<>> \/ c = <<".">> THEN at
                   ELSE IF c = <<".", ".">>
                        THEN SubSeq(at, 1, IF at = <<>> THEN 0 ELSE Len(at) - 1)
                   ELSE IF Append(at, c) \in tree THEN Append(at, c)
                   ELSE Missing
         IN  Walk(to, Tail(parts), tree)
Resolve(p, from, tree) ==
    IF p = <<>> THEN Missing
    ELSE Walk(IF Head(p) = "/" THEN <<>> ELSE from, Components(p), tree)

\* fs.rmdirSync(dir) on an emptied directory: it fails, and the catch logs the
\* error, for the root and for a path whose last part is "." or ".."
RmdirFails(p, node) ==
    \/ node = <<>>
    \/ \E k \in 1..Len(Components(p)) :
          /\ Components(p)[k] \in {<<".">>, <<".", ".">>}
          /\ \A j \in (k + 1)..Len(Components(p)) : Components(p)[j] = <<>>

\* removeDirectory(dir) on the tree: the guard compares the string; an existing
\* directory loses everything below it, and itself if rmdirSync succeeds
removeDirectoryOn(p, from, tree) ==
    IF p = <<"/">> \/ p = <<".", "/">> THEN tree
    ELSE LET node == Resolve(p, from, tree)
         IN  IF node = Missing THEN tree
             ELSE {d \in tree : ~IsPrefix(node, d)}
                  \cup (IF RmdirFails(p, node) THEN {node} ELSE {})

\* encodeGIF: frame files[counter] is written with delay delays[counter]
encodeGIF(files, delays) ==
    [k \in 1..Len(files) |->
        [frame |-> files[k],
         delay |-> IF k <= Len(delays) THEN delays[k] ELSE -1]]

\* removeDirectory(frameDest): frameDest ends in "Frames", so the guard on
\* "/" and "./" never applies to it; the subtree is removed (exists becomes false).
removeDirectory(exists) == FALSE

\* ------------------------------------------------------------------ state

VARIABLES
    call,         \* the caller's arguments that the code only reads: entry point,
                  \* scale === 1, reverse, speed, which callbacks are supplied
    options,      \* the fields of the options object that the code writes:
                  \* limit, parallelFrames and framerate, 0 while unset
    bpc,          \* position in upscaleGIFs / upscaleVideos
    nFiles,       \* fileMap.length of the batch
    bi,           \* loop index i of the batch loop
    retArray,     \* retArray of upscaleImages (frames) or of the batch (files)
    totalLog,     \* the calls made to totalProgress, in order
    stopSeen,     \* history: a callback whose result the code reads has returned stop
                  \* during the current job
    pc,           \* position in upscaleImages / upscaleGIF / upscaleVideo
    workspace,    \* whether the frameDest directory of the current job exists
    nFrames,      \* frames.length: number of frames the decode produced
    frameArray, delayArray, scaledFrames,
    queue, i, cancel, counter, total,
    status,       \* per frame: "queued", "inflight" (child process running), "settled"
    exitCode,     \* per frame: exit code of its child process, -1 before it exits
    progressLog,  \* the calls made to progress in the current job, in order
    dir,          \* removeDirectory: its argument, a path string
    cwd,          \* the current directory of the process
    disk,         \* the directories that exist
    rpc,          \* position in removeDirectory: "none", "call", "done"
    action,       \* upscaleImage: whether the caller passed the action callback
    upc,          \* position in upscaleImage: "none", "exec", "waiting", "returned"
    child,        \* the child process: "none", "running", "exited"
    childCode,    \* its exit code, -1 before it exits
    stopped,      \* the local stopped of upscaleImage
    poller,       \* the poll chain: "none", "sleeping" (in its timeout), "ended"
    polls,        \* the number of calls made to action
    signals,      \* the number of SIGINT sent to the child
    destFolder,   \* upscaleImages: the destFolder argument
    fileMap       \* upscaleImages: the source files found, in order

vars == <<call, options, bpc, nFiles, bi, retArray, totalLog, stopSeen, pc, workspace,
          nFrames, frameArray, delayArray, scaledFrames, queue, i, cancel,
          counter, total, status, exitCode, progressLog, dir, cwd, disk, rpc,
          action, upc, child, childCode, stopped, poller, polls, signals,
          destFolder, fileMap>>

batchVars == <<bpc, nFiles, bi, totalLog>>
schedVars == <<queue, i, cancel, counter, total, status, exitCode, progressLog>>
rmVars == <<dir, cwd, disk, rpc>>
pathVars == <<destFolder, fileMap>>
imgVars == <<action, upc, child, childCode, stopped, poller, polls, signals>>

api == call.api

\* what the caller may pass; options that a given entry point never reads are
\* left at their defaults
Calls ==
    {c \in [api : Apis, scale1 : BOOLEAN, reverse : BOOLEAN, speed : Speeds,
            progress : BOOLEAN, totalProgress : BOOLEAN] :
        /\ c.api = "upscaleImages" =>
              ~c.scale1 /\ ~c.reverse /\ c.speed = NoSpeed /\ ~c.totalProgress
        /\ c.api = "upscaleVideos" => ~c.reverse /\ c.speed = NoSpeed}

\* the locals of one job before it starts; workspace then speaks of the next
\* entry's frameDest, a directory of another name
JobFresh ==
    /\ stopSeen' = FALSE
    /\ workspace' = FALSE
    /\ nFrames' = 0
    /\ frameArray' = <<>>
    /\ delayArray' = <<>>
    /\ scaledFrames' = <<>>
    /\ queue' = <<>>
    /\ i' = 0
    /\ cancel' = FALSE
    /\ counter' = 0
    /\ total' = 0
    /\ status' = <<>>
    /\ exitCode' = <<>>
    /\ progressLog' = <<>>

\* no call of removeDirectory on a path of its own is under way
RemoveIdle ==
    /\ dir = <<>>
    /\ cwd = <<>>
    /\ disk = {<<>>}
    /\ rpc = "none"

\* no call of upscaleImage with an action callback is under way
ImageIdle ==
    /\ action = FALSE
    /\ upc = "none"
    /\ child = "none"
    /\ childCode = -1
    /\ stopped = FALSE
    /\ poller = "none"
    /\ polls = 0
    /\ signals = 0

\* no source file is listed yet; the destFolder is a folder
PathBlank ==
    /\ destFolder = <<OutName>>
    /\ fileMap = <<>>

Init ==
    /\ RemoveIdle
    /\ ImageIdle
    /\ PathBlank
    /\ call \in Calls
    /\ options \in [limit : 0..MaxLimit, parallelFrames : 0..MaxP, framerate : {0}, recursive : {FALSE}]
    /\ bpc = IF call.api = "upscaleImages" THEN "none" ELSE "entry"
    /\ nFiles = 0
    /\ bi = 0
    /\ retArray = <<>>
    /\ totalLog = <<>>
    /\ stopSeen = FALSE
    /\ pc = IF call.api = "upscaleImages" THEN "entry" ELSE "idle"
    /\ workspace = FALSE
    /\ nFrames = 0
    /\ frameArray = <<>>
    /\ delayArray = <<>>
    /\ scaledFrames = <<>>
    /\ queue = <<>>
    /\ i = 0
    /\ cancel = FALSE
    /\ counter = 0
    /\ total = 0
    /\ status = <<>>
    /\ exitCode = <<>>
    /\ progressLog = <<>>

\* ------------------------------------------------------------------ the scheduler

\* let cancel = false; let counter; let total; queue; if (progress) progress(.., total)
\* arr is the frame list the queue is cut from.
SchedulerInit(arr) ==
    /\ cancel' = FALSE
    /\ total' = Len(arr)
    /\ queue' = SpliceAll(arr, DefaultParallel(options.parallelFrames))
    /\ frameArray' = <<>>
    /\ progressLog' = IF call.progress THEN << <<0, Len(arr)>> >> ELSE <<>>
    /\ counter' = IF call.progress
                  THEN FirstCounter(api, CounterStart(api))
                  ELSE CounterStart(api)
    /\ status' = [k \in {arr[x] : x \in 1..Len(arr)} |-> "queued"]
    /\ exitCode' = [k \in {arr[x] : x \in 1..Len(arr)} |-> -1]
    /\ i' = 0

\* queue[i].map(async (f) => { ...; await Waifu2x.upscaleImage(...) : every callback
\* of the group runs up to its first await, which starts its child process.
Dispatch ==
    /\ pc = "loop"
    /\ i < Len(queue)
    /\ cancel' = (cancel \/ LimitReached(api, counter, options.limit))
    /\ status' = [f \in DOMAIN status |->
                    IF \E k \in 1..Len(queue[i + 1]) : queue[i + 1][k] = f
                    THEN "inflight" ELSE status[f]]
    /\ pc' = "await"
    /\ UNCHANGED <<call, rmVars, imgVars, pathVars, options, batchVars, retArray, stopSeen, workspace, nFrames,
                   frameArray, delayArray, scaledFrames, queue, i, counter,
                   total, exitCode, progressLog>>

\* for (let i = 0; i < queue.length; i++) ends
LoopEnd ==
    /\ pc = "loop"
    /\ i >= Len(queue)
    /\ pc' = "afterLoop"
    /\ UNCHANGED <<call, rmVars, imgVars, pathVars, options, batchVars, retArray, stopSeen, workspace, nFrames,
                   frameArray, delayArray, scaledFrames, schedVars>>

\* the child process of frame f exits with some code; upscaleImage returns and the
\* rest of the callback runs: push, progress(counter++, total), if (stop) cancel = true
Settle(f) ==
    /\ pc = "await"
    /\ f \in DOMAIN status
    /\ status[f] = "inflight"
    /\ \E code \in ExitCodes, stop \in (IF call.progress THEN BOOLEAN ELSE {FALSE}) :
        LET ret == upscaleImage(f, code) IN
        /\ status' = [status EXCEPT ![f] = "settled"]
        /\ exitCode' = [exitCode EXCEPT ![f] = code]
        /\ IF ret.rejected
           THEN /\ pc' = "threw"
                /\ UNCHANGED <<retArray, scaledFrames, progressLog, counter, cancel,
                               stopSeen>>
           ELSE /\ pc' = pc
                /\ IF api = "upscaleImages"
                   THEN retArray' = Append(retArray, ret.value) /\ scaledFrames' = scaledFrames
                   ELSE scaledFrames' = Append(scaledFrames, f) /\ retArray' = retArray
                /\ progressLog' = IF call.progress
                                  THEN Append(progressLog, <<counter, total>>)
                                  ELSE progressLog
                /\ counter' = IF call.progress THEN counter + 1 ELSE counter
                /\ cancel' = CancelAfter(cancel, stop)
                /\ stopSeen' = (stopSeen \/ stop)
    /\ UNCHANGED <<call, rmVars, imgVars, pathVars, options, batchVars, workspace, nFrames, frameArray,
                   delayArray, queue, i, total>>

\* Promise.all of the group resolves; if (cancel) break; i++
Join ==
    /\ pc = "await"
    /\ GroupSettled(queue[i + 1], status)
    /\ IF BreakLoop(cancel)
       THEN pc' = "afterLoop" /\ i' = i
       ELSE pc' = "loop" /\ i' = i + 1
    /\ UNCHANGED <<call, rmVars, imgVars, pathVars, options, batchVars, retArray, stopSeen, workspace, nFrames,
                   frameArray, delayArray, scaledFrames, queue, cancel, counter,
                   total, status, exitCode, progressLog>>

\* ------------------------------------------------------------------ upscaleImages

\* readdirSync ... progress(0, total): everything before the loop
\* folders is what the source folder may hold; file k of fileMap is frame k - 1
ImagesList(folders) ==
    /\ api = "upscaleImages"
    /\ pc = "entry"
    /\ \E F \in folders :
        LET found == FileMapOf(F, options.recursive)
            n == Len(found)
        IN  /\ fileMap' = found
            /\ nFrames' = n
            /\ SchedulerInit([k \in 1..n |-> k - 1])
            /\ options' = [options EXCEPT !.limit = DefaultLimit(@, n),
                                           !.parallelFrames = DefaultParallel(@)]
    /\ retArray' = <<>>
    /\ pc' = "loop"
    /\ UNCHANGED <<call, rmVars, imgVars, destFolder, batchVars, stopSeen, workspace,
                   delayArray, scaledFrames>>

\* a source folder without subdirectories
ImagesStart == ImagesList(FlatFolders)
\* a source folder with subdirectories, which options.recursive searches
ImagesStartDeep == ImagesList(SourceFolders)

\* return retArray
ImagesReturn ==
    /\ api = "upscaleImages"
    /\ pc = "afterLoop"
    /\ pc' = "returned"
    /\ UNCHANGED <<call, rmVars, imgVars, pathVars, options, batchVars, retArray, stopSeen, workspace, nFrames,
                   frameArray, delayArray, scaledFrames, schedVars>>

\* ------------------------------------------------------------------ upscaleGIF

\* gifFrames(...) resolves with n frames or rejects; then the workspace is made
\* (a leftover one removed first) and downloadFrames starts one write stream per
\* kept frame, filling frameArray and delayArray.
GifDecode(maxN) ==
    /\ api = "upscaleGIFs"
    /\ bpc = "job"
    /\ pc = "start"
    /\ \/ /\ pc' = "threw"
          /\ UNCHANGED <<workspace, nFrames, frameArray, delayArray>>
       \/ \E n \in 0..maxN :
            LET kept == DownloadIndices(n, Step(n, call.speed)) IN
            /\ nFrames' = n
            /\ workspace' = TRUE
            /\ frameArray' = kept
            /\ delayArray' = [k \in 1..Len(kept) |-> FrameDelay(kept[k])]
            /\ pc' = "download"
    /\ UNCHANGED <<call, rmVars, imgVars, pathVars, options, batchVars, retArray, stopSeen, scaledFrames,
                   schedVars>>

GifStart == GifDecode(MaxFrames)

\* await downloadFrames(frames) settles: a stream error rejects it; otherwise the
\* delays are stretched for speed < 1 and the frames are scheduled, or passed
\* through when options.scale === 1.
GifDownloaded ==
    /\ api = "upscaleGIFs"
    /\ pc = "download"
    /\ \/ /\ pc' = "threw"
          /\ UNCHANGED <<options, frameArray, delayArray, scaledFrames, schedVars>>
       \/ /\ delayArray' = IF SpeedBelow1(call.speed)
                           THEN [k \in 1..Len(delayArray) |->
                                    SlowDelay(delayArray[k], call.speed)]
                           ELSE delayArray
          /\ IF Scheduled(call.scale1)
             THEN /\ SchedulerInit(frameArray)
                  /\ options' = [options EXCEPT
                                    !.parallelFrames = DefaultParallel(@)]
                  /\ scaledFrames' = <<>>
                  /\ pc' = "loop"
             ELSE /\ scaledFrames' = frameArray
                  /\ pc' = "afterLoop"
                  /\ UNCHANGED <<options, frameArray, schedVars>>
    /\ UNCHANGED <<call, rmVars, imgVars, pathVars, batchVars, retArray, stopSeen, workspace, nFrames>>

\* if (options.reverse) both arrays are reversed; encodeGIF is then called
GifReassemble ==
    /\ api = "upscaleGIFs"
    /\ pc = "afterLoop"
    /\ scaledFrames' = IF call.reverse THEN Reverse(scaledFrames) ELSE scaledFrames
    /\ delayArray' = IF call.reverse THEN Reverse(delayArray) ELSE delayArray
    /\ pc' = "encode"
    /\ UNCHANGED <<call, rmVars, imgVars, pathVars, options, batchVars, retArray, stopSeen, workspace, nFrames,
                   frameArray, schedVars>>

\* await encodeGIF(...) settles: resolved, then removeDirectory and return; or
\* rejected (imageSize throws inside the promise executor), and upscaleGIF throws
GifEncoded ==
    /\ api = "upscaleGIFs"
    /\ pc = "encode"
    /\ \/ /\ pc' = "threw"
          /\ UNCHANGED workspace
       \/ /\ workspace' = removeDirectory(workspace)
          /\ pc' = "returned"
    /\ UNCHANGED <<call, rmVars, imgVars, pathVars, options, batchVars, retArray, stopSeen, nFrames, frameArray,
                   delayArray, scaledFrames, schedVars>>

\* ------------------------------------------------------------------ upscaleVideo

\* parseDuration and parseFramerate (each throws when the output of ffmpeg does
\* not match), the default of options.framerate, then the workspace is made and
\* the frame extraction is started at options.framerate
VideoStart ==
    /\ api = "upscaleVideos"
    /\ bpc = "job"
    /\ pc = "start"
    /\ \/ /\ pc' = "threw"
          /\ UNCHANGED <<options, workspace>>
       \/ /\ options' = [options EXCEPT !.framerate = DefaultFramerate(@, bi)]
          /\ workspace' = TRUE
          /\ pc' = "extract"
    /\ UNCHANGED <<call, rmVars, imgVars, pathVars, batchVars, retArray, stopSeen, nFrames, frameArray,
                   delayArray, scaledFrames, schedVars>>

\* the extraction ends with n frames written, and the audio extraction is
\* started; on "error" nothing settles the promise
VideoExtracted ==
    /\ api = "upscaleVideos"
    /\ pc = "extract"
    /\ \/ /\ pc' = "hung"
          /\ UNCHANGED nFrames
       \/ \E n \in 0..MaxFrames :
            /\ nFrames' = n
            /\ pc' = "audio"
    /\ UNCHANGED <<call, rmVars, imgVars, pathVars, options, batchVars, retArray, stopSeen, workspace, frameArray,
                   delayArray, scaledFrames, schedVars>>

\* the audio extraction ends, or errors and is caught (audio = ""; which of the
\* two decides only the arguments of the encode); the frame files are listed
\* in numeric order and scheduled, or passed through when options.scale === 1
VideoAudio ==
    /\ api = "upscaleVideos"
    /\ pc = "audio"
    /\ LET listed == [k \in 1..nFrames |-> k] IN
       IF Scheduled(call.scale1)
       THEN /\ SchedulerInit(listed)
            /\ options' = [options EXCEPT !.parallelFrames = DefaultParallel(@)]
            /\ scaledFrames' = <<>>
            /\ pc' = "loop"
       ELSE /\ scaledFrames' = listed
            /\ frameArray' = listed
            /\ pc' = "afterLoop"
            /\ UNCHANGED <<options, schedVars>>
    /\ UNCHANGED <<call, rmVars, imgVars, pathVars, batchVars, retArray, stopSeen, workspace, nFrames, delayArray>>

\* the encode of the upscaled frames into temp.mp4 is started
VideoReassemble ==
    /\ api = "upscaleVideos"
    /\ pc = "afterLoop"
    /\ pc' = "encode"
    /\ UNCHANGED <<call, rmVars, imgVars, pathVars, options, batchVars, retArray, stopSeen, workspace, nFrames,
                   frameArray, delayArray, scaledFrames, schedVars>>

\* the encode ends, or errors and nothing settles its promise; then
\* parseDuration(tempDest) resolves or throws
VideoEncoded ==
    /\ api = "upscaleVideos"
    /\ pc = "encode"
    /\ pc' \in {"final", "hung", "threw"}
    /\ UNCHANGED <<call, rmVars, imgVars, pathVars, options, batchVars, retArray, stopSeen, workspace, nFrames,
                   frameArray, delayArray, scaledFrames, schedVars>>

\* the final encode ends, then removeDirectory and return; or it errors
VideoFinal ==
    /\ api = "upscaleVideos"
    /\ pc = "final"
    /\ \/ /\ pc' = "hung"
          /\ UNCHANGED workspace
       \/ /\ workspace' = removeDirectory(workspace)
          /\ pc' = "returned"
    /\ UNCHANGED <<call, rmVars, imgVars, pathVars, options, batchVars, retArray, stopSeen, nFrames, frameArray,
                   delayArray, scaledFrames, schedVars>>

\* ------------------------------------------------------------------ upscaleGIFs, upscaleVideos

\* readdirSync, the default of options.limit, totalProgress(0, options.limit)
BatchStart ==
    /\ bpc = "entry"
    /\ \E m \in 0..MaxFiles :
        /\ nFiles' = m
        /\ options' = [options EXCEPT !.limit = DefaultLimit(@, m)]
        /\ totalLog' = IF call.totalProgress
                       THEN << <<0, DefaultLimit(options.limit, m)>> >>
                       ELSE <<>>
    /\ bi' = 0
    /\ retArray' = <<>>
    /\ bpc' = "for"
    /\ UNCHANGED <<call, rmVars, imgVars, pathVars, stopSeen, pc, workspace, nFrames, frameArray, delayArray,
                   scaledFrames, schedVars>>

\* for (let i = 0; i < options.limit; i++) { if (!fileMap[i]) break; try { upscaleX(
BatchNext ==
    /\ bpc = "for"
    /\ IF BatchGoesOn(bi, options.limit, nFiles)
       THEN bpc' = "job" /\ pc' = "start"
       ELSE bpc' = "returned" /\ pc' = pc
    /\ UNCHANGED <<call, rmVars, imgVars, pathVars, options, nFiles, bi, retArray, totalLog, stopSeen, workspace,
                   nFrames, frameArray, delayArray, scaledFrames, schedVars>>

\* the job returned: totalProgress(i + 1, options.limit); retArray.push(ret);
\* if (stop) break
BatchJobReturned ==
    /\ bpc = "job"
    /\ pc = "returned"
    /\ \E stop \in (IF call.totalProgress THEN BOOLEAN ELSE {FALSE}) :
        /\ totalLog' = IF call.totalProgress
                       THEN Append(totalLog, <<bi + 1, options.limit>>)
                       ELSE totalLog
        /\ IF stop
           THEN bpc' = "returned" /\ bi' = bi
           ELSE bpc' = "for" /\ bi' = bi + 1
    /\ retArray' = Append(retArray, bi)
    /\ pc' = "idle"
    /\ JobFresh
    /\ UNCHANGED <<call, rmVars, imgVars, pathVars, options, nFiles>>

\* the job threw: catch (err) { continue }
BatchJobThrew ==
    /\ bpc = "job"
    /\ pc = "threw"
    /\ bi' = CatchContinue(bi).bi
    /\ bpc' = CatchContinue(bi).bpc
    /\ pc' = "idle"
    /\ JobFresh
    /\ UNCHANGED <<call, rmVars, imgVars, pathVars, options, nFiles, retArray, totalLog>>

\* ------------------------------------------------------------------ specification

Next ==
    \/ ImagesStart
    \/ Dispatch
    \/ LoopEnd
    \/ \E f \in 0..MaxFrames : Settle(f)
    \/ Join
    \/ ImagesReturn
    \/ GifStart
    \/ GifDownloaded
    \/ GifReassemble
    \/ GifEncoded
    \/ VideoStart
    \/ VideoExtracted
    \/ VideoAudio
    \/ VideoReassemble
    \/ VideoEncoded
    \/ VideoFinal
    \/ BatchStart
    \/ BatchNext
    \/ BatchJobReturned
    \/ BatchJobThrew

Spec == Init /\ [][Next]_vars

\* every external call that was started finishes, with success or with an error
\* event, and the event loop runs every continuation that is ready: no step that
\* stays possible is put off forever
LiveSpec == Init /\ [][Next]_vars /\ WF_vars(Next)

\* ------------------------------------------------------------------ the decode of one GIF
\* upscaleGIF on one file with options.scale = 1, where the scheduler is skipped:
\* the frame counts and speeds can then be larger than in Spec.

DecodeCalls ==
    {c \in [api : {"upscaleGIFs"}, scale1 : {TRUE}, reverse : BOOLEAN,
            speed : GifSpeeds, progress : BOOLEAN, totalProgress : {FALSE}] : TRUE}

DecodeInit ==
    /\ RemoveIdle
    /\ ImageIdle
    /\ PathBlank
    /\ call \in DecodeCalls
    /\ options = [limit |-> 1, parallelFrames |-> 0, framerate |-> 0, recursive |-> FALSE]
    /\ bpc = "job"
    /\ nFiles = 1
    /\ bi = 0
    /\ retArray = <<>>
    /\ totalLog = <<>>
    /\ stopSeen = FALSE
    /\ pc = "start"
    /\ workspace = FALSE
    /\ nFrames = 0
    /\ frameArray = <<>>
    /\ delayArray = <<>>
    /\ scaledFrames = <<>>
    /\ queue = <<>>
    /\ i = 0
    /\ cancel = FALSE
    /\ counter = 0
    /\ total = 0
    /\ status = <<>>
    /\ exitCode = <<>>
    /\ progressLog = <<>>

GifStartLong == GifDecode(MaxGifFrames)

DecodeNext ==
    \/ GifStartLong
    \/ GifDownloaded
    \/ GifReassemble
    \/ GifEncoded

DecodeSpec == DecodeInit /\ [][DecodeNext]_vars

\* ------------------------------------------------------------------ removeDirectory
\* removeDirectory called on a path string, in a process whose current directory
\* is cwd, on a directory tree; the pipeline is not running.

PipelineIdle ==
    /\ PathBlank
    /\ call = [api |-> "upscaleImages", scale1 |-> FALSE, reverse |-> FALSE,
               speed |-> NoSpeed, progress |-> FALSE, totalProgress |-> FALSE]
    /\ options = [limit |-> 0, parallelFrames |-> 0, framerate |-> 0, recursive |-> FALSE]
    /\ bpc = "none"
    /\ nFiles = 0
    /\ bi = 0
    /\ retArray = <<>>
    /\ totalLog = <<>>
    /\ stopSeen = FALSE
    /\ pc = "idle"
    /\ workspace = FALSE
    /\ nFrames = 0
    /\ frameArray = <<>>
    /\ delayArray = <<>>
    /\ scaledFrames = <<>>
    /\ queue = <<>>
    /\ i = 0
    /\ cancel = FALSE
    /\ counter = 0
    /\ total = 0
    /\ status = <<>>
    /\ exitCode = <<>>
    /\ progressLog = <<>>

pipelineVars == <<pathVars, call, options, bpc, nFiles, bi, retArray, totalLog, stopSeen, pc,
                  workspace, nFrames, frameArray, delayArray, scaledFrames, schedVars>>

RemoveInit ==
    /\ PipelineIdle
    /\ ImageIdle
    /\ dir \in PathStrings
    /\ disk \in Trees
    /\ cwd \in disk
    /\ rpc = "call"

\* the whole of removeDirectory(dir), its recursive calls included
RemoveDirectoryCall ==
    /\ rpc = "call"
    /\ disk' = removeDirectoryOn(dir, cwd, disk)
    /\ rpc' = "done"
    /\ UNCHANGED <<pipelineVars, imgVars, dir, cwd>>

RemoveNext == RemoveDirectoryCall

RemoveSpec == RemoveInit /\ [][RemoveNext]_vars

\* ------------------------------------------------------------------ the output paths
\* upscaleImages alone, on source folders with subdirectories, with and without
\* options.recursive, the dest a folder or an image path

PathInit ==
    /\ RemoveIdle
    /\ ImageIdle
    /\ call \in {c \in Calls : c.api = "upscaleImages"}
    /\ options \in [limit : {0}, parallelFrames : 0..MaxP, framerate : {0},
                     recursive : BOOLEAN]
    /\ destFolder \in DestFolders
    /\ fileMap = <<>>
    /\ bpc = "none"
    /\ nFiles = 0
    /\ bi = 0
    /\ retArray = <<>>
    /\ totalLog = <<>>
    /\ stopSeen = FALSE
    /\ pc = "entry"
    /\ workspace = FALSE
    /\ nFrames = 0
    /\ frameArray = <<>>
    /\ delayArray = <<>>
    /\ scaledFrames = <<>>
    /\ queue = <<>>
    /\ i = 0
    /\ cancel = FALSE
    /\ counter = 0
    /\ total = 0
    /\ status = <<>>
    /\ exitCode = <<>>
    /\ progressLog = <<>>

PathNext ==
    \/ ImagesStartDeep
    \/ Dispatch
    \/ LoopEnd
    \/ \E f \in 0..MaxFrames : Settle(f)
    \/ Join
    \/ ImagesReturn

PathSpec == PathInit /\ [][PathNext]_vars

\* ------------------------------------------------------------------ upscaleImage
\* one call of upscaleImage, with or without the action callback

PollInit ==
    /\ PipelineIdle
    /\ RemoveIdle
    /\ action \in BOOLEAN
    /\ upc = "exec"
    /\ child = "none"
    /\ childCode = -1
    /\ stopped = FALSE
    /\ poller = "none"
    /\ polls = 0
    /\ signals = 0

\* child_process.exec(command); let stopped = false; if (action) poll(): the first
\* call of action is made at once, and poll waits in its timeout; then upscaleImage
\* waits for the exit event
ImageExec ==
    /\ upc = "exec"
    /\ child' = "running"
    /\ IF action
       THEN \E stop \in BOOLEAN :
               /\ polls' = polls + 1
               /\ stopped' = stop
               /\ signals' = IF stop THEN signals + 1 ELSE signals
               /\ poller' = "sleeping"
       ELSE /\ stopped' = FALSE
            /\ UNCHANGED <<polls, signals, poller>>
    /\ upc' = "waiting"
    /\ UNCHANGED <<pipelineVars, rmVars, action, childCode>>

\* the timeout of poll ends: if (!stopped) poll(), which calls action again and,
\* on "stop", sets stopped and sends SIGINT; otherwise the chain ends
PollWake ==
    /\ poller = "sleeping"
    /\ IF PollAgain(stopped)
       THEN /\ polls < MaxPolls
            /\ \E stop \in BOOLEAN :
                 /\ polls' = polls + 1
                 /\ stopped' = (stopped \/ stop)
                 /\ signals' = IF stop THEN signals + 1 ELSE signals
            /\ poller' = "sleeping"
       ELSE /\ poller' = "ended"
            /\ UNCHANGED <<polls, stopped, signals>>
    /\ UNCHANGED <<pipelineVars, rmVars, action, upc, child, childCode>>

\* the child exits, with any code or by the signal: the handler sets stopped and
\* resolves the promise, and upscaleImage returns destPath
ChildExit ==
    /\ upc = "waiting"
    /\ child = "running"
    /\ child' = "exited"
    /\ childCode' \in ExitCodes
    /\ stopped' = TRUE
    /\ upc' = "returned"
    /\ UNCHANGED <<pipelineVars, rmVars, action, poller, polls, signals>>

PollNext ==
    \/ ImageExec
    \/ PollWake
    \/ ChildExit

PollSpec == PollInit /\ [][PollNext]_vars

\* ------------------------------------------------------------------ properties

\* `${frameDest}/frame${i}.jpg` of upscaleGIF, `${frameDest}/frame%d.png` of
\* upscaleVideo, and the dest `${upScaleDest}/${path.basename(f)}` of a frame
FrameName(f) ==
    [stem |-> <<f>>, ext |-> IF api = "upscaleGIFs" THEN ".jpg" ELSE ".png"]
FramePath(f) == [dir |-> "frames", name |-> FrameName(f)]
UpScaleDest == <<[stem |-> <<"upscaled">>, ext |-> ""]>>
\* the -o path of the child process of frame f
DestPath(f) ==
    IF api = "upscaleImages"
    THEN parseFilename(fileMap[f + 1], destFolder, Rename)
    ELSE parseFilename(FramePath(f), Append(UpScaleDest, FrameName(f)), Rename)

Range(s) == {s[k] : k \in 1..Len(s)}
Ordered(s) == \A a, b \in 1..Len(s) : a < b => s[a] < s[b]
InFlight == {f \in DOMAIN status : status[f] = "inflight"}
Settled == {f \in DOMAIN status : status[f] = "settled"}
Dispatched == {f \in DOMAIN status : status[f] # "queued"}
\* the frame set of the current run, in ordinal order
FrameSet ==
    IF api = "upscaleImages" THEN [k \in 1..nFrames |-> k - 1]
    ELSE IF api = "upscaleVideos" THEN [k \in 1..nFrames |-> k]
    ELSE DownloadIndices(nFrames, Step(nFrames, call.speed))
\* the delay frame f is meant to be shown with
OwnDelay(f) ==
    IF SpeedBelow1(call.speed) THEN SlowDelay(FrameDelay(f), call.speed)
    ELSE FrameDelay(f)
IsJob == api \in {"upscaleGIFs", "upscaleVideos"}
\* the smallest integer that is at least a / b
CeilDiv(a, b) == (a + b - 1) \div b
\* options.speed is an integer above 1
IntegerSpeed(s) == s[2] = 1 /\ s[1] > 1
Scheduling == pc \in {"loop", "await", "afterLoop"} /\ ~call.scale1

\* C1: the frame sequence handed to reassembly (the array upscaleImages returns,
\* scaledFrames of upscaleGIF) is in ordinal order whatever the completion
\* order, and encodeGIF pairs every frame with its own delay.
C1_OrdinalOrder ==
    /\ (api = "upscaleImages" /\ pc = "returned") => Ordered(retArray)
    /\ (api = "upscaleGIFs" /\ pc = "afterLoop") => Ordered(scaledFrames)
    /\ (api = "upscaleGIFs" /\ pc = "encode") =>
          \A k \in 1..Len(scaledFrames) :
              encodeGIF(scaledFrames, delayArray)[k].delay = OwnDelay(scaledFrames[k])

\* C2: upscaleImages with an item limit L < total dispatches exactly min(L, total)
\* files and never a file at ordinal >= L, for every P and with or without a
\* progress callback.  (A limit below total is one the caller set: the default
\* is total.)
C2_LimitBoundsDispatch ==
    (api = "upscaleImages" /\ pc # "entry" /\ options.limit < nFrames) =>
        /\ \A f \in Dispatched : f < options.limit
        /\ pc = "returned" => Cardinality(Dispatched) = Min(options.limit, nFrames)

\* C3: a stop returned by the progress callback sets cancel; cancel, once set,
\* stays set; after the stop no frame that is still queued is ever dispatched
\* (the groups after the current one never start); the loop is left only when no
\* frame is in flight, and every settled frame has had its progress call.
C3_StateInv ==
    /\ (IsJob /\ stopSeen) => cancel
    /\ (IsJob /\ pc # "await") => InFlight = {}
    /\ (IsJob /\ Scheduling /\ call.progress) =>
          Len(progressLog) = 1 + Cardinality(Settled)
    /\ (IsJob /\ Scheduling /\ stopSeen) =>
          \A g \in 1..Len(queue) : \A k \in 1..Len(queue[g]) :
              /\ g > i + 1 => status[queue[g][k]] = "queued"
              /\ (g = i + 1 /\ pc = "afterLoop") => status[queue[g][k]] = "settled"
C3_Step ==
    (IsJob /\ pc \notin {"returned", "threw"}) =>
        /\ cancel => cancel'
        /\ stopSeen =>
              \A f \in DOMAIN status :
                  status[f] = "queued" =>
                      (f \in DOMAIN status' /\ status'[f] = "queued")
C3_CancelDrainsGroup == []C3_StateInv /\ [][C3_Step]_vars
\* a stop came in the first group of two frames, both settled, a later group was
\* left undispatched
C3_Witness ==
    /\ IsJob /\ pc = "afterLoop" /\ cancel /\ stopSeen
    /\ Len(queue) >= 2 /\ i = 0 /\ Len(queue[1]) = 2
    /\ \A k \in 1..2 : status[queue[1][k]] = "settled"
    /\ status[queue[2][1]] = "queued"
    /\ Len(progressLog) = 3

\* C4: a frame whose upscaler process fails is reported as failed by upscaleImage
\* and is left out of the array upscaleImages returns.
C4_FailedFrameOmitted ==
    \A f \in Settled :
        exitCode[f] # 0 =>
            /\ upscaleImage(f, exitCode[f]).rejected
            /\ api = "upscaleImages" => f \notin Range(retArray)

\* C5: when upscaleGIF or upscaleVideo ends, by returning or by throwing, its
\* workspace directory is gone.
C5_WorkspaceReleased ==
    (IsJob /\ pc \in {"returned", "threw"}) => ~workspace

\* C6: the k-th progress call reports (k-1, total), total being the size of the
\* frame set and never exceeded; a run that no stop signal and no item limit cuts
\* short makes exactly total + 1 calls.
C6_ProgressSequence ==
    /\ \A k \in 1..Len(progressLog) :
          /\ progressLog[k] = <<k - 1, Len(FrameSet)>>
          /\ k - 1 <= Len(FrameSet)
    /\ (/\ call.progress /\ ~call.scale1
        /\ pc \in {"afterLoop", "encode", "final", "returned"}
        /\ ~stopSeen
        /\ api = "upscaleImages" => options.limit >= nFrames) =>
          /\ Len(progressLog) = Len(FrameSet) + 1
          /\ \A f \in DOMAIN status : status[f] = "settled"
C6_Witness ==
    /\ pc \in {"afterLoop", "returned"} /\ call.progress /\ ~stopSeen
    /\ Len(queue) = 2 /\ Len(queue[1]) = 2 /\ Len(queue[2]) = 1
    /\ progressLog = << <<0, 3>>, <<1, 3>>, <<2, 3>>, <<3, 3>> >>

\* C7: at most P upscaler processes (1 when parallelFrames is unset) are in flight;
\* the groups are the contiguous slices of P frames of the frame set, in order;
\* the frames of later groups wait until every frame of the current and earlier
\* groups has settled.
C7_StateInv ==
    LET P == IF options.parallelFrames = 0 THEN 1 ELSE options.parallelFrames
        n == Len(FrameSet)
    IN  /\ Cardinality(InFlight) <= P
        /\ InFlight # {} => pc = "await"
        /\ queue # <<>> =>
              /\ options.parallelFrames >= 1
              /\ Len(queue) = (n + P - 1) \div P
              /\ \A g \in 1..Len(queue) :
                    queue[g] = SubSeq(FrameSet, (g - 1) * P + 1, Min(g * P, n))
        /\ \A g \in 1..Len(queue) : \A k \in 1..Len(queue[g]) :
              /\ g > i + 1 => status[queue[g][k]] = "queued"
              /\ g < i + 1 => status[queue[g][k]] = "settled"
              /\ (g = i + 1 /\ pc = "loop") => status[queue[g][k]] = "queued"
\* an unset parallelFrames can only become 1, a set one is kept
C7_Step ==
    IF options.parallelFrames = 0
    THEN options'.parallelFrames \in {0, 1}
    ELSE options'.parallelFrames = options.parallelFrames
C7_BoundedGroups == []C7_StateInv /\ [][C7_Step]_vars
\* the second group is in flight after a first group of two frames has settled
C7_Witness ==
    /\ pc = "await" /\ i = 1 /\ InFlight # {}
    /\ Len(queue[1]) = 2 /\ options.parallelFrames = 2
    /\ \A k \in 1..2 : status[queue[1][k]] = "settled"

\* C8: a job given a progress callback has called it by the time it returns, the
\* first call reporting (0, total), whatever the scale factor.
C8_ProgressAlwaysCalled ==
    (IsJob /\ pc = "returned" /\ call.progress) =>
        /\ progressLog # <<>>
        /\ progressLog[1][1] = 0

\* C9: when encodeGIF is called the frame and delay sequences have the same
\* length and the delay at every index is the delay of the frame at that index.
C9_DelaysAligned ==
    (api = "upscaleGIFs" /\ pc = "encode") =>
        /\ Len(scaledFrames) = Len(delayArray)
        /\ \A k \in 1..Len(scaledFrames) :
              k <= Len(delayArray) /\ delayArray[k] = OwnDelay(scaledFrames[k])

\* C10: when the per-job callback has returned stop during a job, the batch ends
\* with that job: no further input file is started once the job has returned
\* (the outer callback's stop is the break of BatchJobReturned).
C10_Step ==
    (IsJob /\ bpc = "job" /\ pc = "returned" /\ stopSeen) =>
        ~(bpc' = "for" /\ bi' < options.limit /\ bi' < nFiles)
C10_StopEndsBatch == [][C10_Step]_vars

\* C11: in upscaleGIFs and upscaleVideos a job that throws is caught: it adds
\* nothing to retArray and the loop goes on to the next index, whose file is
\* started when it is within the limit; a job that returns adds its destination;
\* so retArray holds the destinations of the jobs that returned, in input order.
C11_StateInv ==
    IsJob =>
        /\ Ordered(retArray)
        /\ \A k \in 1..Len(retArray) :
              /\ retArray[k] <= bi
              /\ bpc \in {"for", "job"} => retArray[k] < bi
C11_Step ==
    IsJob =>
        /\ (bpc = "job" /\ pc = "threw") =>
              retArray' = retArray /\ bpc' = "for" /\ bi' = bi + 1
        /\ (bpc = "job" /\ pc = "returned") => retArray' = Append(retArray, bi)
        /\ (bpc = "job" /\ pc \notin {"threw", "returned"}) => retArray' = retArray
        /\ (bpc = "for" /\ bi < Min(options.limit, nFiles)) =>
              bpc' = "job" /\ bi' = bi /\ retArray' = retArray
C11_FailureSkipped == []C11_StateInv /\ [][C11_Step]_vars
\* the first of two files threw, the second returned and is the only result
C11_Witness ==
    IsJob /\ bpc = "returned" /\ nFiles = 2 /\ bi = 2 /\ retArray = <<1>>

\* C12: a job is started only from the batch loop with no job active, for the
\* index the loop stands at, which is below min(limit, number of entries); the
\* index starts at 0 and advances by one, only when the job of that index has
\* returned or thrown.
C12_StateInv ==
    IsJob =>
        /\ bpc = "job" => bi < Min(options.limit, nFiles)
        /\ bpc # "job" => pc = "idle"
        /\ bpc \in {"entry", "for"} => bi <= Min(options.limit, nFiles)
        /\ bpc = "entry" => bi = 0
C12_Step ==
    IsJob =>
        /\ (bpc # "job" /\ bpc' = "job") =>
              bpc = "for" /\ pc = "idle" /\ pc' = "start" /\ bi' = bi
        /\ bi' \in {bi, bi + 1}
        /\ bi' = bi + 1 => (bpc = "job" /\ pc \in {"returned", "threw"})
        /\ (bpc = "job" /\ bpc' # "job") => pc \in {"returned", "threw"}
C12_SequentialJobs == []C12_StateInv /\ [][C12_Step]_vars
\* the second of two files is being processed after the first has ended
C12_Witness ==
    IsJob /\ bpc = "job" /\ bi = 1 /\ nFiles = 2 /\ pc = "download"

\* C13: with an integer speed s > 1 on n decomposed frames, upscaleGIF keeps the
\* frames 0, s, 2s, ... below n (the stride ceil(n / (n / s)) is s), which are
\* ceil(n / s) frames, each with its own delay as decomposed.
C13_StrideKeepsFrames ==
    (api = "upscaleGIFs" /\ pc = "download" /\ IntegerSpeed(call.speed)) =>
        LET s == call.speed[1] IN
        /\ Step(nFrames, call.speed) = (IF nFrames = 0 THEN 1 ELSE s)
        /\ Len(frameArray) = CeilDiv(nFrames, s)
        /\ \A k \in 1..Len(frameArray) : frameArray[k] = (k - 1) * s
        /\ Len(delayArray) = Len(frameArray)
        /\ \A k \in 1..Len(frameArray) : delayArray[k] = FrameDelay(frameArray[k])

\* C14: with speed below 1, unset or 1, upscaleGIF keeps every decomposed frame
\* (frames 0..n-1, stride 1); after the download the delay of frame f is its
\* decomposed delay divided by speed when speed < 1 and the decomposed delay
\* itself otherwise.
C14_SlowKeepsAll ==
    (api = "upscaleGIFs" /\ ~SpeedAbove1(call.speed)) =>
        /\ pc = "download" =>
              /\ Step(nFrames, call.speed) = 1
              /\ frameArray = [k \in 1..nFrames |-> k - 1]
              /\ delayArray = [k \in 1..nFrames |-> FrameDelay(k - 1)]
        /\ pc = "afterLoop" =>
              /\ call.scale1 => scaledFrames = [k \in 1..nFrames |-> k - 1]
              /\ Len(delayArray) = nFrames
              /\ \A k \in 1..Len(delayArray) :
                    IF SpeedBelow1(call.speed)
                    THEN delayArray[k] * call.speed[1] = FrameDelay(k - 1) * call.speed[2]
                    ELSE delayArray[k] = FrameDelay(k - 1)
\* three frames at speed 1/4: the delays 4, 6, 8 have become 16, 24, 32
C14_Witness ==
    /\ api = "upscaleGIFs" /\ pc = "afterLoop" /\ call.speed = <<1, 4>>
    /\ scaledFrames = <<0, 1, 2>> /\ delayArray = <<16, 24, 32>>

\* C15: with options.scale = 1 no upscaler process is ever started in upscaleGIF
\* and upscaleVideo, and the frames that go to the encode are the decomposed
\* frames in their order (reversed when options.reverse asks for it).
C15_ScaleOnePassThrough ==
    (IsJob /\ call.scale1) =>
        /\ status = <<>> /\ queue = <<>> /\ pc \notin {"loop", "await"}
        /\ pc = "afterLoop" => scaledFrames = FrameSet
        /\ pc \in {"encode", "final"} =>
              scaledFrames = (IF call.reverse THEN Reverse(FrameSet) ELSE FrameSet)
C15_Witness ==
    /\ IsJob /\ call.scale1 /\ pc = "encode" /\ ~call.reverse
    /\ scaledFrames = <<0, 1, 2>> /\ status = <<>>

\* C17: the scheduler on an empty frame set starts no upscaler process, leaves the
\* result empty and calls progress once, with (0, 0).
C17_EmptyFrameSet ==
    (/\ pc \in {"loop", "await", "afterLoop", "encode", "final", "returned"}
     /\ Scheduled(call.scale1) /\ nFrames = 0) =>
        /\ pc # "await" /\ queue = <<>> /\ Dispatched = {}
        /\ (api = "upscaleImages" => retArray = <<>>)
        /\ scaledFrames = <<>>
        /\ progressLog = (IF call.progress THEN << <<0, 0>> >> ELSE <<>>)
C17_Witness ==
    /\ pc = "afterLoop" /\ ~call.scale1 /\ nFrames = 0 /\ call.progress
    /\ progressLog = << <<0, 0>> >> /\ api = "upscaleGIFs"

\* C20: in upscaleVideos called without a framerate option, every video is
\* extracted and encoded at its own source framerate: from the extraction to the
\* return of a job, options.framerate, which the job reads its -r argument from,
\* is the framerate parsed from the source of that job.
C20_OwnFramerate ==
    (/\ api = "upscaleVideos" /\ bpc = "job"
     /\ pc \in {"extract", "audio", "loop", "await", "afterLoop", "encode", "final",
                "returned"}) =>
        options.framerate = SourceFramerate(bi)

\* C16: removeDirectory leaves the tree as it is when its argument resolves to
\* the root or to the current directory; for any other existing directory it
\* removes everything below it and keeps every directory outside it.
C16_Step ==
    (rpc = "call" /\ rpc' = "done") =>
        LET node == Resolve(dir, cwd, disk) IN
        IF node \in {<<>>, cwd} THEN disk' = disk
        ELSE node # Missing =>
                /\ disk' \subseteq disk
                /\ \A d \in disk \ {node} : (d \in disk') = ~IsPrefix(node, d)
C16_RootAndCwdKept == [][C16_Step]_vars

\* C18: upscaleImage with an action callback calls it at once and then after
\* every timeout while the child runs and no stop was returned; the call that
\* returns "stop" sends the child one SIGINT; once stopped is set, by that or by
\* the exit of the child, action is not called and no signal is sent again;
\* upscaleImage returns with the exit of the child and not before.
C18_StateInv ==
    /\ signals <= 1
    /\ signals = 1 => stopped
    /\ (upc = "returned") = (child = "exited")
    /\ child = "exited" => stopped
    /\ ~action => (polls = 0 /\ poller = "none" /\ signals = 0)
    /\ (action /\ upc \in {"waiting", "returned"}) => polls >= 1
    /\ (action /\ upc = "waiting" /\ ~stopped) => poller = "sleeping"
C18_Step ==
    /\ (stopped \/ child = "exited") => (polls' = polls /\ signals' = signals)
    /\ polls' \in {polls, polls + 1}
    /\ (polls' = polls + 1 /\ stopped') => signals' = signals + 1
    /\ (polls' = polls + 1 /\ ~stopped') => signals' = signals
    /\ stopped => stopped'
C18_PollUntilStopOrExit == []C18_StateInv /\ [][C18_Step]_vars
\* the third call returned stop, the child then exited and the chain has ended
C18_Witness ==
    /\ action /\ polls = 3 /\ signals = 1 /\ upc = "returned" /\ poller = "ended"

\* C19: the frames that are in flight together have pairwise distinct output
\* paths, in upscaleImages (with options.recursive too) as in upscaleGIF and
\* upscaleVideo.
C19_DistinctOutputs ==
    \A f, g \in InFlight : f # g => DestPath(f) # DestPath(g)

\* C21: a job of a batch that was started ends, by returning or by throwing,
\* when each of its external calls finishes with success or with an error event.
C21_JobTerminates ==
    (bpc = "job" /\ pc = "start") ~> (bpc = "job" /\ pc \in {"returned", "threw"})

\* C22: every call of totalProgress reports as total the number of entries the
\* batch will process, min(limit, number of entries), and a current that is at
\* most that total; a batch that ends with no job thrown and no stop has made a
\* last call with current = total.
EntriesToProcess == IF options.limit < nFiles THEN options.limit ELSE nFiles
C22_OuterTotals ==
    /\ \A k \in 1..Len(totalLog) :
          /\ totalLog[k][2] = EntriesToProcess
          /\ totalLog[k][1] <= totalLog[k][2]
    /\ (/\ call.totalProgress
        /\ bpc = "returned"
        /\ bi = EntriesToProcess
        /\ Len(retArray) = bi) =>
            totalLog[Len(totalLog)][1] = totalLog[Len(totalLog)][2]

====
